---- MODULE Spec2Model ----
(***************************************************************************)
(* Model of the demo HTTP handlers of main_base.py (and the copies of the  *)
(* first handlers in main.py).                                             *)
(*                                                                         *)
(* Representation of Python values:                                        *)
(*   - an Optional value is a sequence of length 0 (None) or 1 (<<v>>);    *)
(*   - a float is the integer ten times its value (10.5 is 105, 62 is 620, *)
(*     so that the int 62 and the float 62.0 are the same number, as they  *)
(*     are under Python's ==);                                             *)
(*   - a dict is a function whose DOMAIN is its key set;                   *)
(*   - an Item2 object is [values, fields_set]: the value of every field   *)
(*     and the set of fields that were given explicitly;                   *)
(*   - an unhandled Python exception inside a handler is the framework's   *)
(*     status 500 answer, its body the exception's class name.             *)
(***************************************************************************)
EXTENDS Integers, Sequences, FiniteSets, TLC

VARIABLES
  items,    \* the items dictionary
  tasks,    \* the tasks dictionary
  req,      \* the request served last (sequential serving)
  resp,     \* its response
  served,   \* number of requests served so far
  repeat,   \* history: the request served last equals the one served before it
  pc,       \* per worker thread: position inside get_or_create_task
  tid,      \* per worker thread: the task_id of its request
  tstatus,  \* per worker thread: response.status_code
  tresp     \* per worker thread: the response sent

vars == <<items, tasks, req, resp, served, repeat, pc, tid, tstatus, tresp>>

(* ------------------------------ bounds --------------------------------- *)

\* number of requests served one after another
MaxRequests == 3

\* number of worker threads serving get_or_create_task concurrently
NumThreads == 3

Threads == 1..NumThreads

(* --------------------------- program constants -------------------------- *)

HTTP_200_OK == 200

HTTP_201_CREATED == 201

HTTP_418 == 418

\* the framework's answer to a request that fails parameter validation
HTTP_422 == 422

\* the framework's answer to an exception no handler is registered for
HTTP_500 == 500

\* tax: float = 10.5, in tenths
DefaultTax == 105

None == <<>>

Some(v) == <<v>>

Fields == {"name", "description", "price", "tax", "tags"}

Item2Default ==
  [name |-> None, description |-> None, price |-> None,
   tax |-> Some(DefaultTax), tags |-> <<>>]

InitItems ==
  [foo |-> [name |-> Some("Foo"), price |-> Some(502)],
   bar |-> [name |-> Some("Bar"), description |-> Some("The bartenders"),
            price |-> Some(620), tax |-> Some(202)],
   baz |-> [name |-> Some("Baz"), description |-> None, price |-> Some(502),
            tax |-> Some(105), tags |-> <<>>]]

InitTasks == [foo |-> "Listen to the Bar Fighters"]

NewTaskText == "This didn't exist before"

ModelName == {"alexnet", "resnet", "lenet"}

(* ------------------------------ inputs ---------------------------------- *)

ItemIds == {"foo", "bar", "baz", "qux"}

TaskIds == {"foo", "t1", "t2"}

\* JSON bodies of /items2/{item_id}: the keys are the fields the body gives
Bodies ==
  { <<>>,
    [name |-> Some("New")],
    [description |-> None],
    [price |-> Some(10), tax |-> Some(15)],
    [tags |-> <<"t1">>],
    [name |-> None, description |-> Some("d"), price |-> Some(10),
     tax |-> Some(15), tags |-> <<"t1", "t2">>],
    [tax |-> None] }

IntIds == {0, 5}

Queries == {None, Some(""), Some("foo")}

ModelSegments == {"alexnet", "resnet", "lenet", "vgg"}

UnicornNames == {"yolo", "bob", "YOLO"}

DateTimes == {None, Some([t |-> 10, aware |-> FALSE]), Some([t |-> 10, aware |-> TRUE])}

TimeDeltas == {None, Some(3)}

(* ------------------------ Item2 and its helpers ------------------------- *)

\* the declarative schema of Item2: tax is a float and may not be null
ValidItem2(data) ==
  "tax" \in DOMAIN data => data["tax"] # None

\* Item2(**data): omitted fields take their defaults
Item2(data) ==
  [values |-> [f \in Fields |-> IF f \in DOMAIN data THEN data[f] ELSE Item2Default[f]],
   fields_set |-> DOMAIN data \cap Fields]

\* item.dict(exclude_unset=True)
dict_exclude_unset(m) == [f \in m.fields_set |-> m.values[f]]

\* a copy that takes the update but forgets the values of the copied model
copy_update_forgetting(m, update) ==
  [values |-> [f \in Fields |-> IF f \in DOMAIN update THEN update[f] ELSE Item2Default[f]],
   fields_set |-> m.fields_set \cup DOMAIN update]

\* model.copy(update=update_data)
copy_update(m, update) ==
  [values |-> [f \in Fields |-> IF f \in DOMAIN update THEN update[f] ELSE m.values[f]],
   fields_set |-> m.fields_set \cup DOMAIN update]

\* jsonable_encoder(model): the dict of every field of the model
jsonable_encoder(m) == [f \in Fields |-> m.values[f]]

(* ------------------------------- state ---------------------------------- *)

NoReq == [op |-> "none"]

NoResp == [status |-> 0]

Init ==
  /\ items = InitItems
  /\ tasks = InitTasks
  /\ req = NoReq
  /\ resp = NoResp
  /\ served = 0
  /\ repeat = FALSE
  /\ pc = [t \in Threads |-> "idle"]
  /\ tid = [t \in Threads |-> "foo"]
  /\ tstatus = [t \in Threads |-> HTTP_200_OK]
  /\ tresp = [t \in Threads |-> NoResp]

ThreadVars == <<pc, tid, tstatus, tresp>>

\* bookkeeping common to every request served in sequence
Serve(r, answer) ==
  /\ served < MaxRequests
  /\ served' = served + 1
  /\ req' = r
  /\ resp' = answer
  /\ repeat' = (r.op = req.op /\ r = req)
  /\ UNCHANGED ThreadVars

(* ----------------------------- handlers --------------------------------- *)

\* "if q is not None" in place of "if q"
read_item_result_not_none(item_id, q) ==
  IF q # None
  THEN [item_id |-> item_id, q |-> q[1]]
  ELSE [item_id |-> item_id]

\* GET /items/{item_id}
read_item_result(item_id, q) ==
  IF q # None /\ q[1] # ""
  THEN [item_id |-> item_id, q |-> q[1]]
  ELSE [item_id |-> item_id]

read_item ==
  \E item_id \in IntIds, q \in Queries :
    /\ Serve([op |-> "GET /items/{item_id}", item_id |-> item_id, q |-> q],
             [status |-> HTTP_200_OK, body |-> read_item_result(item_id, q)])
    /\ UNCHANGED <<items, tasks>>

\* the lenet branch left out
get_model_result_no_lenet(model_name) ==
  IF model_name = "alexnet"
  THEN [model_name |-> model_name, message |-> "Deep Learning FTW!"]
  ELSE [model_name |-> model_name, message |-> "Have some residuals"]

\* GET /models/{model_name}
get_model_result(model_name) ==
  IF model_name = "alexnet"
  THEN [model_name |-> model_name, message |-> "Deep Learning FTW!"]
  ELSE IF model_name = "lenet"
  THEN [model_name |-> model_name, message |-> "LeCNN all the images"]
  ELSE [model_name |-> model_name, message |-> "Have some residuals"]

get_model ==
  \E seg \in ModelSegments :
    /\ Serve([op |-> "GET /models/{model_name}", model_name |-> seg],
             IF seg \in ModelName
             THEN [status |-> HTTP_200_OK, body |-> get_model_result(seg)]
             ELSE [status |-> HTTP_422, body |-> "validation error"])
    /\ UNCHANGED <<items, tasks>>

\* datetime + timedelta and datetime - datetime; TypeError on None and on
\* the difference of a naive and an aware datetime
CanAdd(dt, delta) == dt # None /\ delta # None

Add(dt, delta) == [t |-> dt[1].t + delta[1], aware |-> dt[1].aware]

CanSub(a, b) == a # None /\ a[1].aware = b.aware

\* PUT /items1/{item_id}
read_items_put_result(start_datetime, end_datetime, process_after) ==
  IF ~CanAdd(start_datetime, process_after)
  THEN [status |-> HTTP_500, body |-> "TypeError"]
  ELSE LET start_process == Add(start_datetime, process_after) IN
       IF ~CanSub(end_datetime, start_process)
       THEN [status |-> HTTP_500, body |-> "TypeError"]
       ELSE [status |-> HTTP_200_OK,
             body |-> [start_datetime |-> start_datetime,
                       end_datetime |-> end_datetime,
                       process_after |-> process_after,
                       start_process |-> start_process,
                       duration |-> end_datetime[1].t - start_process.t]]

read_items_put ==
  \E s \in DateTimes, e \in DateTimes, p \in TimeDeltas :
    /\ Serve([op |-> "PUT /items1/{item_id}", start_datetime |-> s,
              end_datetime |-> e, process_after |-> p],
             read_items_put_result(s, e, p))
    /\ UNCHANGED <<items, tasks>>

\* the message of unicorn_exception_handler
unicorn_message(name) == "Oops! " \o name \o " did something. There goes a rainbow..."

\* the name matched without regard to case
read_unicorn_result_any_case(name) ==
  IF name \in {"yolo", "YOLO"}
  THEN [status |-> HTTP_418, body |-> [message |-> unicorn_message(name)]]
  ELSE [status |-> HTTP_200_OK, body |-> [unicorn_name |-> name]]

\* GET /unicorns/{name}
read_unicorn_result(name) ==
  IF name = "yolo"
  THEN [status |-> HTTP_418, body |-> [message |-> unicorn_message(name)]]
  ELSE [status |-> HTTP_200_OK, body |-> [unicorn_name |-> name]]

read_unicorn ==
  \E name \in UnicornNames :
    /\ Serve([op |-> "GET /unicorns/{name}", name |-> name], read_unicorn_result(name))
    /\ UNCHANGED <<items, tasks>>

\* the dict with d[k] = v
SetItem(d, k, v) == [x \in DOMAIN d \cup {k} |-> IF x = k THEN v ELSE d[x]]

\* the body encoded without the fields it does not give
put_item_encoded_exclude_unset(body) == dict_exclude_unset(Item2(body))

\* PUT /items2/{item_id}
put_item_encoded(body) == jsonable_encoder(Item2(body))

\* a PUT that merges the body onto the stored record, as PATCH does
update_item_put_merging ==
  \E item_id \in ItemIds, body \in Bodies :
    LET r == [op |-> "PUT /items2/{item_id}", item_id |-> item_id, body |-> body]
        stored == IF item_id \in DOMAIN items THEN items[item_id] ELSE <<>>
        merged == jsonable_encoder(copy_update(Item2(stored), dict_exclude_unset(Item2(body))))
    IN
    IF ~ValidItem2(body)
    THEN /\ Serve(r, [status |-> HTTP_422, body |-> "validation error"])
         /\ UNCHANGED <<items, tasks>>
    ELSE /\ Serve(r, [status |-> HTTP_200_OK, body |-> merged])
         /\ items' = SetItem(items, item_id, merged)
         /\ UNCHANGED tasks

update_item_put ==
  \E item_id \in ItemIds, body \in Bodies :
    LET r == [op |-> "PUT /items2/{item_id}", item_id |-> item_id, body |-> body] IN
    IF ~ValidItem2(body)
    THEN /\ Serve(r, [status |-> HTTP_422, body |-> "validation error"])
         /\ UNCHANGED <<items, tasks>>
    ELSE /\ Serve(r, [status |-> HTTP_200_OK, body |-> put_item_encoded(body)])
         /\ items' = SetItem(items, item_id, put_item_encoded(body))
         /\ UNCHANGED tasks

\* a merge that extends the stored tags by the body's instead of replacing them
patch_updated_item_extending_tags(stored_item_data, body) ==
  LET stored == Item2(stored_item_data)
      update == dict_exclude_unset(Item2(body))
      merged == copy_update(stored, update)
  IN [merged EXCEPT !.values = [f \in Fields |->
        IF f = "tags" /\ f \in DOMAIN update
        THEN stored.values[f] \o update[f]
        ELSE merged.values[f]]]

\* PATCH /items2/{item_id}: the merged item
patch_updated_item(stored_item_data, body) ==
  copy_update(Item2(stored_item_data), dict_exclude_unset(Item2(body)))

update_item_patch ==
  \E item_id \in ItemIds, body \in Bodies :
    LET r == [op |-> "PATCH /items2/{item_id}", item_id |-> item_id, body |-> body] IN
    IF ~ValidItem2(body)
    THEN /\ Serve(r, [status |-> HTTP_422, body |-> "validation error"])
         /\ UNCHANGED <<items, tasks>>
    ELSE IF item_id \notin DOMAIN items
    THEN /\ Serve(r, [status |-> HTTP_500, body |-> "KeyError"])
         /\ UNCHANGED <<items, tasks>>
    ELSE LET updated_item == patch_updated_item(items[item_id], body) IN
         /\ Serve(r, [status |-> HTTP_200_OK, body |-> jsonable_encoder(updated_item)])
         /\ items' = SetItem(items, item_id, jsonable_encoder(updated_item))
         /\ UNCHANGED tasks

\* PUT /get-or-create-task/{task_id}, served alone
task_status(store, task_id) ==
  IF task_id \notin DOMAIN store THEN HTTP_201_CREATED ELSE HTTP_200_OK

\* the entry written whether or not the key is there
task_store_overwriting(store, task_id) == SetItem(store, task_id, NewTaskText)

task_store(store, task_id) ==
  IF task_id \notin DOMAIN store THEN SetItem(store, task_id, NewTaskText) ELSE store

get_or_create_task ==
  \E task_id \in TaskIds :
    /\ Serve([op |-> "PUT /get-or-create-task/{task_id}", task_id |-> task_id],
             [status |-> task_status(tasks, task_id),
              body |-> task_store(tasks, task_id)[task_id]])
    /\ tasks' = task_store(tasks, task_id)
    /\ UNCHANGED items

Next ==
  \/ read_item
  \/ get_model
  \/ read_items_put
  \/ read_unicorn
  \/ update_item_put
  \/ update_item_patch
  \/ get_or_create_task

Spec == Init /\ [][Next]_vars

(* ---------- get_or_create_task on concurrent worker threads ------------- *)
(* The handler is a plain def, which the framework runs on a thread pool;  *)
(* each statement of its body is one step of the thread.                   *)

SeqVars == <<items, req, resp, served, repeat>>

\* a request arrives; response.status_code starts as status_code=200
Receive(t) ==
  /\ pc[t] = "idle"
  /\ \E task_id \in TaskIds : tid' = [tid EXCEPT ![t] = task_id]
  /\ tstatus' = [tstatus EXCEPT ![t] = HTTP_200_OK]
  /\ pc' = [pc EXCEPT ![t] = "test"]
  /\ UNCHANGED <<tasks, tresp, SeqVars>>

\* if task_id not in tasks:
Test(t) ==
  /\ pc[t] = "test"
  /\ pc' = [pc EXCEPT ![t] = IF tid[t] \notin DOMAIN tasks THEN "insert" ELSE "return"]
  /\ UNCHANGED <<tasks, tid, tstatus, tresp, SeqVars>>

\* tasks[task_id] = "This didn't exist before"
Insert(t) ==
  /\ pc[t] = "insert"
  /\ tasks' = SetItem(tasks, tid[t], NewTaskText)
  /\ pc' = [pc EXCEPT ![t] = "status"]
  /\ UNCHANGED <<tid, tstatus, tresp, SeqVars>>

\* the status assignment left out
SetStatusOmitted(t) ==
  /\ pc[t] = "status"
  /\ pc' = [pc EXCEPT ![t] = "return"]
  /\ UNCHANGED <<tasks, tid, tstatus, tresp, SeqVars>>

\* response.status_code = status.HTTP_201_CREATED
SetStatus(t) ==
  /\ pc[t] = "status"
  /\ tstatus' = [tstatus EXCEPT ![t] = HTTP_201_CREATED]
  /\ pc' = [pc EXCEPT ![t] = "return"]
  /\ UNCHANGED <<tasks, tid, tresp, SeqVars>>

\* return tasks[task_id]
Return(t) ==
  /\ pc[t] = "return"
  /\ tresp' = [tresp EXCEPT ![t] = [status |-> tstatus[t], body |-> tasks[tid[t]]]]
  /\ pc' = [pc EXCEPT ![t] = "done"]
  /\ UNCHANGED <<tasks, tid, tstatus, SeqVars>>

NextConc ==
  \E t \in Threads :
    \/ Receive(t)
    \/ Test(t)
    \/ Insert(t)
    \/ SetStatus(t)
    \/ Return(t)

SpecConc == Init /\ [][NextConc]_vars

(* ============================== properties ============================== *)

OpReadItem == "GET /items/{item_id}"

OpGetModel == "GET /models/{model_name}"

OpUnicorn == "GET /unicorns/{name}"

OpPut2 == "PUT /items2/{item_id}"

OpPatch2 == "PATCH /items2/{item_id}"

OpTask == "PUT /get-or-create-task/{task_id}"

\* a step that serves a request of kind op
Serves(op) == served' # served /\ req'.op = op

\* every entry other than the one under id is as it was
OthersUnchanged(id) ==
  /\ DOMAIN items' = DOMAIN items \cup {id}
  /\ \A k \in DOMAIN items \ {id} : items'[k] = items[k]

\* the value a stored dict holds for a field, the Item2 default when it has no such key
Held(stored, f) == IF f \in DOMAIN stored THEN stored[f] ELSE Item2Default[f]

\* C1: served one after another, a PUT /get-or-create-task/{task_id} for a
\* task_id that is not yet a key of tasks is answered 201 and creates the
\* entry; for a task_id that is a key it is answered 200 with the stored
\* value (the body the creating request returned); and no step removes or
\* changes an entry of tasks, the initial "foo" included.
C1_GetOrCreateSequential ==
  [][ /\ \A k \in DOMAIN tasks : k \in DOMAIN tasks' /\ tasks'[k] = tasks[k]
      /\ \A k \in DOMAIN InitTasks : k \in DOMAIN tasks' /\ tasks'[k] = InitTasks[k]
      /\ Serves(OpTask) =>
           LET id == req'.task_id IN
           /\ id \in DOMAIN tasks'
           /\ resp'.body = tasks'[id]
           /\ id \notin DOMAIN tasks => resp'.status = 201
           /\ id \in DOMAIN tasks => resp'.status = 200 /\ resp'.body = tasks[id]
    ]_vars

\* C1 witness: a later PUT for a task_id that an earlier PUT created
C1_Witness ==
  /\ req.op = OpTask
  /\ req.task_id \notin DOMAIN InitTasks
  /\ resp.status = 200
  /\ resp.body = NewTaskText
  /\ repeat

\* C2 as stated: a PUT /items2/{item_id} with a partial body on a stored id
\* keeps, for every field the body omits, the value the store held before.
C2_PutKeepsOmittedFields ==
  [][ (Serves(OpPut2) /\ ValidItem2(req'.body) /\ req'.item_id \in DOMAIN items
         /\ DOMAIN req'.body # Fields) =>
        \A f \in Fields :
          items'[req'.item_id][f] =
            IF f \in DOMAIN req'.body THEN req'.body[f]
            ELSE Held(items[req'.item_id], f)
    ]_vars

\* C2 amended: a PUT /items2/{item_id} with a partial body on a stored id
\* stores the body's value for every field the body gives and resets every
\* field the body omits to its Item2 default, so that an omitted field keeps
\* its prior value only where that value was the default already.
C2_PutResetsOmittedFields ==
  [][ (Serves(OpPut2) /\ ValidItem2(req'.body) /\ req'.item_id \in DOMAIN items
         /\ DOMAIN req'.body # Fields) =>
        LET id == req'.item_id IN
        /\ DOMAIN items'[id] = Fields
        /\ \A f \in DOMAIN req'.body : items'[id][f] = req'.body[f]
        /\ \A f \in Fields \ DOMAIN req'.body :
             /\ items'[id][f] = Item2Default[f]
             /\ (items'[id][f] = Held(items[id], f)) <=> (Held(items[id], f) = Item2Default[f])
    ]_vars

\* C2 witness: "bar" after a PUT that gave only the name: the description
\* and the tax it held before are gone
C2_Witness ==
  /\ req.op = OpPut2
  /\ req.item_id = "bar"
  /\ req.body = [name |-> Some("New")]
  /\ resp.status = 200
  /\ items["bar"].description = None
  /\ items["bar"].tax = Some(DefaultTax)
  /\ served = 1

\* C3: a PATCH /items2/{item_id} on a stored id leaves, in the stored record
\* and in the response, for every Item2 field the body's value when the body
\* gives the field and otherwise the value held before (the default when the
\* stored record had no such key); the other entries are unchanged.
C3_PatchMerges ==
  [][ (Serves(OpPatch2) /\ ValidItem2(req'.body) /\ req'.item_id \in DOMAIN items) =>
        LET id == req'.item_id IN
        /\ DOMAIN items'[id] = Fields
        /\ DOMAIN resp'.body = Fields
        /\ \A f \in Fields :
             LET v == IF f \in DOMAIN req'.body THEN req'.body[f] ELSE Held(items[id], f) IN
             items'[id][f] = v /\ resp'.body[f] = v
        /\ OthersUnchanged(id)
    ]_vars

\* C3 witness: a PATCH that gave some fields, on a record that held a
\* non-default value in a field the body omitted and still holds it
C3_Witness ==
  /\ req.op = OpPatch2
  /\ resp.status = 200
  /\ DOMAIN req.body # {}
  /\ \E f \in Fields \ DOMAIN req.body : items[req.item_id][f] # Item2Default[f]
  /\ \E f \in DOMAIN req.body : items[req.item_id][f] # Item2Default[f]

\* C4: a PATCH /items2/{item_id} that repeats the request served just before
\* it (same id, same body, answered 200) leaves items as it is and returns
\* the same response.
C4_PatchIdempotent ==
  [][ (/\ req.op = OpPatch2
       /\ resp.status = 200
       /\ Serves(OpPatch2)
       /\ req'.item_id = req.item_id
       /\ req'.body = req.body) =>
        (items' = items /\ resp' = resp)
    ]_vars

\* C4 witness: the second of two equal PATCH requests that give tags
C4_Witness ==
  /\ req.op = OpPatch2
  /\ repeat
  /\ resp.status = 200
  /\ "tags" \in DOMAIN req.body
  /\ items[req.item_id].tags = req.body.tags

\* C5: a PUT /items2/{item_id} stores and returns the body with the Item2
\* defaults (name, description, price null; tax 10.5; tags empty) for the
\* fields it omits, whatever was stored under the id and whether or not the
\* id was stored; the other entries are unchanged.
C5_PutReplaces ==
  [][ (Serves(OpPut2) /\ ValidItem2(req'.body)) =>
        LET id == req'.item_id
            defaults == [name |-> <<>>, description |-> <<>>, price |-> <<>>,
                         tax |-> <<105>>, tags |-> <<>>]
            full == [f \in Fields |->
                       IF f \in DOMAIN req'.body THEN req'.body[f] ELSE defaults[f]]
        IN /\ id \in DOMAIN items'
           /\ items'[id] = full
           /\ resp'.status = 200
           /\ resp'.body = full
           /\ OthersUnchanged(id)
    ]_vars

\* C5 witness: a PUT with a partial body under an id that was not stored
C5_Witness ==
  /\ req.op = OpPut2
  /\ resp.status = 200
  /\ req.item_id \notin DOMAIN InitItems
  /\ DOMAIN req.body \notin {{}, Fields}
  /\ served = 1
  /\ items[req.item_id].tax = <<105>>

\* C6 as stated: a request that is not answered successfully was rejected by
\* validation (422) or is GET /unicorns/yolo (418).
C6_OnlyValidationAndUnicornFail ==
  (req.op # "none" /\ resp.status \notin {200, 201}) =>
    \/ resp.status = 422
    \/ req.op = OpUnicorn /\ req.name = "yolo" /\ resp.status = 418

\* C7: GET /unicorns/{name} is answered 418 with the formatted message
\* exactly when name is "yolo", and 200 with {"unicorn_name": name} otherwise.
C7_Unicorn ==
  req.op = OpUnicorn =>
    /\ resp.status = 418 <=> req.name = "yolo"
    /\ resp.status = 418 =>
         resp.body = [message |-> "Oops! " \o req.name \o " did something. There goes a rainbow..."]
    /\ resp.status # 418 =>
         resp.status = 200 /\ resp.body = [unicorn_name |-> req.name]

\* C7 witness: GET /unicorns/yolo answered 418
C7_Witness ==
  /\ req.op = OpUnicorn
  /\ req.name = "yolo"
  /\ resp.status = 418
  /\ resp.body.message = "Oops! yolo did something. There goes a rainbow..."

\* C8: GET /items/{item_id} returns item_id, and the key q with the value of
\* item-query exactly when item-query was given and is not empty.
C8_ReadItem ==
  req.op = OpReadItem =>
    /\ resp.status = 200
    /\ resp.body.item_id = req.item_id
    /\ "q" \in DOMAIN resp.body <=> (req.q # <<>> /\ req.q # <<"">>)
    /\ "q" \in DOMAIN resp.body => resp.body.q = req.q[1]
    /\ "q" \notin DOMAIN resp.body => resp.body = [item_id |-> req.item_id]

\* C8 witness: GET /items/5?item-query=foo
C8_Witness ==
  /\ req.op = OpReadItem
  /\ req.item_id = 5
  /\ req.q = <<"foo">>
  /\ resp.body = [item_id |-> 5, q |-> "foo"]

\* C9: GET /models/{model_name} accepts exactly alexnet, resnet and lenet,
\* echoes the value and returns the message of that value.
C9_GetModel ==
  req.op = OpGetModel =>
    /\ resp.status = 200 <=> req.model_name \in {"alexnet", "resnet", "lenet"}
    /\ resp.status # 200 => resp.status = 422
    /\ resp.status = 200 =>
         /\ resp.body.model_name = req.model_name
         /\ req.model_name = "alexnet" => resp.body.message = "Deep Learning FTW!"
         /\ req.model_name = "lenet" => resp.body.message = "LeCNN all the images"
         /\ req.model_name = "resnet" => resp.body.message = "Have some residuals"

\* C9 witness: GET /models/lenet
C9_Witness ==
  /\ req.op = OpGetModel
  /\ req.model_name = "lenet"
  /\ resp.status = 200
  /\ resp.body.message = "LeCNN all the images"

\* the threads whose request is for task_id, and those of them answered with status
RequestsFor(task_id) == {t \in Threads : pc[t] # "idle" /\ tid[t] = task_id}

Answered(task_id, status) ==
  {t \in RequestsFor(task_id) : pc[t] = "done" /\ tresp[t].status = status}

AllAnswered(task_id) ==
  RequestsFor(task_id) # {} /\ \A t \in RequestsFor(task_id) : pc[t] = "done"

\* C10 as stated: of the concurrent requests for a task_id that was not in
\* tasks initially, exactly one is answered 201 and the others 200.
C10_ExactlyOneCreated ==
  \A task_id \in TaskIds \ DOMAIN InitTasks :
    AllAnswered(task_id) =>
      /\ Cardinality(Answered(task_id, 201)) = 1
      /\ Answered(task_id, 200) = RequestsFor(task_id) \ Answered(task_id, 201)

\* C10 amended: of the concurrent requests for a task_id that was not in
\* tasks initially, at least one is answered 201 (every request whose
\* membership test ran before the first insertion is) and all the others
\* are answered 200, every one with the body "This didn't exist before".
C10_AtLeastOneCreated ==
  \A task_id \in TaskIds \ DOMAIN InitTasks :
    /\ \A t \in RequestsFor(task_id) :
         pc[t] = "done" =>
           /\ tresp[t].status \in {200, 201}
           /\ tresp[t].body = NewTaskText
           /\ tresp[t].status = 200 =>
                \E u \in RequestsFor(task_id) : pc[u] \in {"status", "return", "done"} /\ u # t
    /\ AllAnswered(task_id) =>
         /\ Cardinality(Answered(task_id, 201)) >= 1
         /\ Answered(task_id, 200) = RequestsFor(task_id) \ Answered(task_id, 201)

\* C10 witness: two requests for the same new task_id, both answered 201
C10_Witness ==
  \E task_id \in TaskIds \ DOMAIN InitTasks :
    /\ AllAnswered(task_id)
    /\ Cardinality(Answered(task_id, 201)) >= 2

====
